---- MODULE Spec2Model ----
(***************************************************************************)
(* The blog gRPC server of main.go: two handlers, GetPosts and CreatePost, *)
(* each running loadPost, an in-memory mutation and savePosts against the  *)
(* one file posts.json, with no lock between concurrent calls.             *)
(***************************************************************************)
EXTENDS Integers, Sequences, FiniteSets, TLC

\* ------------------------------------------------------------------ bounds
MaxCalls == 2      \* calls started in one behaviour
MaxDay == 2        \* calendar days the clock runs through
MaxFaults == 1     \* failures (a failed open or write, a crash) in one behaviour
MaxLen == 2        \* posts of a collection given to the save/load round trip

\* The handler goroutines that may run at the same time.
Procs == {1, 2}

\* ------------------------------------------------------------------- state
VARIABLES
  file,      \* posts.json
  today,     \* the calendar day time.Now() returned last
  pc,        \* where each handler goroutine stands
  kind,      \* which handler it runs: "get" or "create"
  req,       \* the CreatePostRequest of a CreatePost call
  posts,     \* the handler's posts.Posts
  newPost,   \* the handler's newPost (CreatePost)
  result,    \* what the handler returns: [ok, posts, post, err]
  ncalls,    \* calls started so far
  nfaults,   \* failures so far
  lastWriter,\* the goroutine that last changed the file (0: none)
  good,      \* the collection of the last well-formed content of the file
  prevGood,  \* the collection of the well-formed content before that one
  aux,       \* per call, what the properties need to remember
  hist,      \* the call that returned last (its results when it ran alone
             \* and without error)
  log        \* what has happened since the server first started

\* ------------------------------------------------------------- data model
\* message Post: the six fields, ViewCount an int64, the others strings.
StringFields == {"Title", "Content", "CreatedAt", "Author", "LastViewed"}

\* The zero value of pb.Post: what json.Unmarshal starts every element from.
ZeroPost ==
  [Title |-> "", Content |-> "", CreatedAt |-> "", Author |-> "",
   ViewCount |-> 0, LastViewed |-> ""]

\* int64 increment (Go wraps on signed overflow); the 64-bit limits are
\* scaled down to 32-bit ones.
MaxInt64 == 2147483646
MinInt64 == (0 - MaxInt64) - 1
\* A counter that is not incremented.
Inc64_Stuck(v) == v
Inc64(v) == IF v = MaxInt64 THEN MinInt64 ELSE v + 1

\* time.Now().Format("2006-01-02"): the calendar day, no time component.
FormatDate(d) ==
  IF d < 10 THEN "2025-01-0" \o ToString(d) ELSE "2025-01-" \o ToString(d)

\* message CreatePostRequest: Title, Content, CreatedAt, Author.
Requests ==
  { [Title |-> "A", Content |-> "c", CreatedAt |-> "1999-12-31", Author |-> "u"],
    [Title |-> "B", Content |-> "", CreatedAt |-> "", Author |-> "v"] }

\* ---------------------------------------------------- JSON text as tokens
\* The file content is the token sequence of the JSON text.  k is the token
\* kind: a punctuation mark, "key" (an object key with its colon), "str",
\* "num", or "bad" (text that is no JSON token).
Tok(k, s, n) == [k |-> k, s |-> s, n |-> n]
Punct(c) == Tok(c, "", 0)
KeyTok(name) == Tok("key", name, 0)
StrTok(s) == Tok("str", s, 0)
\* A number written through a float: large magnitudes lose their low bits.
NumTok_Float(n) ==
  Tok("num", "", IF n > 1000000 \/ n < -1000000 THEN (n \div 1024) * 1024 ELSE n)
NumTok(n) == Tok("num", "", n)

\* The struct fields in declaration order, as encoding/json writes them.
FieldOrder == <<"Title", "Content", "CreatedAt", "Author", "ViewCount", "LastViewed">>

\* The generated struct tags are `json:"<name>,omitempty"`: a field holding
\* its zero value is left out of the object.
IsZeroField(post, f) == IF f = "ViewCount" THEN post[f] = 0 ELSE post[f] = ""

ValueTok(post, f) == IF f = "ViewCount" THEN NumTok(post[f]) ELSE StrTok(post[f])

RECURSIVE MarshalFields(_, _, _)
MarshalFields(post, i, first) ==
  IF i > Len(FieldOrder) THEN <<>>
  ELSE LET f == FieldOrder[i] IN
       IF IsZeroField(post, f) THEN MarshalFields(post, i + 1, first)
       ELSE (IF first THEN <<>> ELSE <<Punct(",")>>)
            \o <<KeyTok(f), ValueTok(post, f)>>
            \o MarshalFields(post, i + 1, FALSE)

MarshalPost(post) == <<Punct("{")>> \o MarshalFields(post, 1, TRUE) \o <<Punct("}")>>

RECURSIVE MarshalElems(_, _)
MarshalElems(ps, i) ==
  IF i > Len(ps) THEN <<>>
  ELSE (IF i = 1 THEN <<>> ELSE <<Punct(",")>>)
       \o MarshalPost(ps[i]) \o MarshalElems(ps, i + 1)

\* An empty slice written as null instead of [].
Marshal_EmptyAsNull(ps) ==
  IF ps = <<>> THEN <<Tok("bad", "null", 0)>>
  ELSE <<Punct("[")>> \o MarshalElems(ps, 1) \o <<Punct("]")>>

\* json.MarshalIndent(posts.Posts, "", "  "): the array of post objects.
Marshal(ps) == <<Punct("[")>> \o MarshalElems(ps, 1) \o <<Punct("]")>>

\* json.Unmarshal(data, &postsSlice): [ok, posts].  Any malformed, truncated
\* or wrongly typed input is an error and yields no slice.
ParseFail == [ok |-> FALSE, posts |-> <<>>, post |-> ZeroPost, next |-> 0]

RECURSIVE ParseMembers(_, _, _)
ParseMembers(toks, i, post) ==
  IF i + 2 > Len(toks) THEN ParseFail
  ELSE LET key == toks[i]
           val == toks[i + 1]
           sep == toks[i + 2]
           typed == \/ key.s \in StringFields /\ val.k = "str"
                    \/ key.s = "ViewCount" /\ val.k = "num"
                    \/ key.s \notin (StringFields \cup {"ViewCount"})
                       /\ val.k \in {"str", "num"}
           post2 == IF key.s \in StringFields
                    THEN [post EXCEPT ![key.s] = val.s]
                    ELSE IF key.s = "ViewCount"
                         THEN [post EXCEPT !.ViewCount = val.n]
                         ELSE post
       IN IF key.k # "key" \/ ~typed THEN ParseFail
          ELSE IF sep.k = "," THEN ParseMembers(toks, i + 3, post2)
          ELSE IF sep.k = "}"
               THEN [ok |-> TRUE, posts |-> <<>>, post |-> post2, next |-> i + 3]
               ELSE ParseFail

ParseObject(toks, i) ==
  IF i + 1 > Len(toks) \/ toks[i].k # "{" THEN ParseFail
  ELSE IF toks[i + 1].k = "}"
       THEN [ok |-> TRUE, posts |-> <<>>, post |-> ZeroPost, next |-> i + 2]
       ELSE ParseMembers(toks, i + 1, ZeroPost)

RECURSIVE ParseElems(_, _, _)
ParseElems(toks, i, acc) ==
  LET o == ParseObject(toks, i) IN
  IF ~o.ok \/ o.next > Len(toks) THEN ParseFail
  ELSE LET acc2 == Append(acc, o.post) IN
       IF toks[o.next].k = ","
       THEN ParseElems(toks, o.next + 1, acc2)
       ELSE IF toks[o.next].k = "]" /\ o.next = Len(toks)
            THEN [ok |-> TRUE, posts |-> acc2, post |-> ZeroPost, next |-> o.next + 1]
            ELSE ParseFail

Unmarshal(data) ==
  IF Len(data) < 2 \/ data[1].k # "[" THEN ParseFail
  ELSE IF data[2].k = "]"
       THEN (IF Len(data) = 2
             THEN [ok |-> TRUE, posts |-> <<>>, post |-> ZeroPost, next |-> 3]
             ELSE ParseFail)
       ELSE ParseElems(data, 2, <<>>)

\* ------------------------------------------------------------------ errors
\* A gRPC status error: its code, and its message in two parts, the format's
\* own text and the text of the wrapped error (%v).
StatusErr(code, msg, cause) == [code |-> code, msg |-> msg, cause |-> cause]
NoErr == StatusErr("OK", "", "")

\* What %v prints for a status error.
ErrString(e) == "rpc error: code = " \o e.code \o " desc = " \o e.msg \o e.cause

\* status.Errorf(codes.Internal, "failed to read posts file: %v\n", err)
ReadErr(cause) == StatusErr("Internal", "failed to read posts file: ", cause)
\* status.Errorf(codes.Internal, "failed to parse post data %v\n", err)
ParseErr == StatusErr("Internal", "failed to parse post data ", "invalid JSON")
\* The loadPost error passed on as it is.
CreateLoadErr_Raw(e) == e
\* status.Errorf(codes.Internal, "failed to load posts: %v\n", err)
CreateLoadErr(e) == StatusErr("Internal", "failed to load posts: ", ErrString(e))
\* status.Errorf(codes.Internal, "failed to save posts %v", err), and the
\* same with a colon in CreatePost.
GetSaveErr(cause) == StatusErr("Internal", "failed to save posts ", cause)
CreateSaveErr(cause) == StatusErr("Internal", "failed to save posts: ", cause)

\* ---------------------------------------------------------------- the file
\* posts.json: missing, present but unreadable, or present with a content.
FileOf(st, data) == [st |-> st, data |-> data]

\* A missing file read as an empty array.
ReadFile_MissingIsEmpty(f) ==
  IF f.st = "missing" THEN [err |-> "", data |-> <<Punct("["), Punct("]")>>]
  ELSE IF f.st = "unreadable" THEN [err |-> "EACCES", data |-> <<>>]
  ELSE [err |-> "", data |-> f.data]

\* os.ReadFile(filePath): [err, data].
ReadFile(f) ==
  IF f.st = "missing" THEN [err |-> "ENOENT", data |-> <<>>]
  ELSE IF f.st = "unreadable" THEN [err |-> "EACCES", data |-> <<>>]
  ELSE [err |-> "", data |-> f.data]

\* A loadPost that takes a file without content for an empty collection.
LoadPost_EmptyFileOk(f) ==
  LET r == ReadFile(f) IN
  IF r.err # "" THEN [err |-> ReadErr(r.err), posts |-> <<>>]
  ELSE IF r.data = <<>> THEN [err |-> NoErr, posts |-> <<>>]
  ELSE LET u == Unmarshal(r.data) IN
       IF ~u.ok THEN [err |-> ParseErr, posts |-> <<>>]
       ELSE [err |-> NoErr, posts |-> u.posts]

\* loadPost: [err, posts]; posts is assigned only when both steps succeed.
LoadPost(f) ==
  LET r == ReadFile(f) IN
  IF r.err # "" THEN [err |-> ReadErr(r.err), posts |-> <<>>]
  ELSE LET u == Unmarshal(r.data) IN
       IF ~u.ok THEN [err |-> ParseErr, posts |-> <<>>]
       ELSE [err |-> NoErr, posts |-> u.posts]

\* A write of data at offset 0 of a file holding old: what lies beyond the
\* written part stays.
WriteAt0(old, data) == data \o SubSeq(old, Len(data) + 1, Len(old))

\* An open of a temporary file: posts.json is not touched.
OpenTrunc_Untouched(f, opened) == f

\* An open without O_TRUNC, and an open that empties the file even when it
\* fails.
OpenTrunc_Keep(f, opened) == IF opened THEN FileOf("present", f.data) ELSE f
OpenTrunc_Always(f, opened) == FileOf("present", <<>>)

\* os.WriteFile opens with O_WRONLY|O_CREATE|O_TRUNC: an open that succeeds
\* empties the file, one that fails leaves it as it was.
OpenTrunc(f, opened) == IF opened THEN FileOf("present", <<>>) ELSE f

\* savePosts run alone, the file being writable: the marshalled posts replace
\* the whole content.
SavePosts(f, ps) == FileOf("present", WriteAt0(OpenTrunc(f, TRUE).data, Marshal(ps)))

\* The new post appended twice.
AppendPost_Twice(ps, np) == Append(Append(ps, np), np)

\* The new post put first.
AppendPost_Front(ps, np) == <<np>> \o ps

\* posts.Posts = append(posts.Posts, newPost)
AppendPost(ps, np) == Append(ps, np)

\* The loop stopping one post early.
TouchAll_SkipLast(ps, day) ==
  [i \in 1..Len(ps) |->
     IF i = Len(ps) THEN ps[i]
     ELSE [ps[i] EXCEPT !.ViewCount = Inc64(ps[i].ViewCount),
                        !.LastViewed = FormatDate(day)]]

\* The loop stamping CreatedAt as well.
TouchAll_StampsCreated(ps, day) ==
  [i \in 1..Len(ps) |->
     [ps[i] EXCEPT !.ViewCount = Inc64(ps[i].ViewCount),
                   !.LastViewed = FormatDate(day),
                   !.CreatedAt = FormatDate(day)]]

\* The loop adding a count kept between the calls.
TouchAll_CallCounter(ps, day) ==
  [i \in 1..Len(ps) |->
     [ps[i] EXCEPT !.ViewCount = ps[i].ViewCount + ncalls,
                   !.LastViewed = FormatDate(day)]]

\* The for loop of GetPosts over the loaded posts.  Each iteration calls
\* time.Now(); the loop is one step and falls within one day.
TouchAll(ps, day) ==
  [i \in 1..Len(ps) |->
     [ps[i] EXCEPT !.ViewCount = Inc64(ps[i].ViewCount),
                   !.LastViewed = FormatDate(day)]]

\* The post built with the request's CreatedAt, and the post built with a
\* ViewCount of 1.
BuildPost_RequestDate(r, day) ==
  [Title |-> r.Title, Content |-> r.Content, Author |-> r.Author,
   CreatedAt |-> r.CreatedAt, LastViewed |-> FormatDate(day),
   ViewCount |-> 0]
BuildPost_CountOne(r, day) ==
  [Title |-> r.Title, Content |-> r.Content, Author |-> r.Author,
   CreatedAt |-> FormatDate(day), LastViewed |-> FormatDate(day),
   ViewCount |-> 1]

\* The pb.Post literal of CreatePost.
BuildPost(r, day) ==
  [Title |-> r.Title, Content |-> r.Content, Author |-> r.Author,
   CreatedAt |-> FormatDate(day), LastViewed |-> FormatDate(day),
   ViewCount |-> 0]

\* ----------------------------------------------------------- initial state
vars == <<file, today, pc, kind, req, posts, newPost, result, ncalls, nfaults,
          lastWriter, good, prevGood, aux, hist, log>>

NoReq == [Title |-> "", Content |-> "", CreatedAt |-> "", Author |-> ""]
NoResult == [ok |-> FALSE, posts |-> <<>>, post |-> ZeroPost, err |-> NoErr]
NoHist == [kind |-> "none", ok |-> FALSE, solo |-> FALSE, posts |-> <<>>,
           post |-> ZeroPost, before |-> <<>>, clock |-> 0]

\* aux[p]: loaded, the slice loadPost returned; fileAtCall, the file when
\* the call began; wrote, the call has changed the file; clean, no other
\* goroutine changed the file between this call's open and its write;
\* clock, the day its time.Now() returned; solo, no other call was running
\* at any time of this call; prev, the call that returned last before this
\* one began (kept when this call began alone); failedAt, the step that failed;
\* steps, the steps the call has taken, in order; fileAtLoad, the file as its
\* loadPost read it; midSave, its loadPost ran while another call was between
\* the open and the write of its savePosts, nothing else having changed the
\* file since that open.
NoAux ==
  [loaded |-> <<>>, fileAtCall |-> FileOf("missing", <<>>), wrote |-> FALSE,
   clean |-> FALSE, clock |-> 0, solo |-> FALSE, prev |-> NoHist,
   failedAt |-> "", steps |-> <<>>, fileAtLoad |-> FileOf("missing", <<>>),
   midSave |-> FALSE]

\* log: torn, a crash has interrupted a save that had emptied the file and
\* not yet written all of its data, nothing else having changed the file;
\* init0, the collection in the file when the server first started; getSaves,
\* the GetPosts calls that have called savePosts; made, for every CreatePost
\* call that has called savePosts, its post and the value of getSaves then;
\* overlapped, a call has begun while another was running; partial, a write
\* has been cut short by a failure or a crash; kept, the calls are counted
\* (getSaves, made and overlapped are kept up to date).
NoLog ==
  [torn |-> FALSE, init0 |-> <<>>, getSaves |-> 0, made |-> <<>>,
   overlapped |-> FALSE, partial |-> FALSE, kept |-> FALSE]

\* A call begins: it overlaps the calls that are running.
LogCall(p) ==
  IF ~log.kept THEN log
  ELSE [log EXCEPT !.overlapped = @ \/ \E o \in Procs \ {p} : pc[o] # "idle"]

\* A call calls savePosts.
LogSave(p) ==
  IF ~log.kept THEN log
  ELSE IF kind[p] = "get"
  THEN [log EXCEPT !.getSaves = @ + 1]
  ELSE [log EXCEPT !.made = Append(@, [post |-> newPost[p], gets |-> log.getSaves])]

\* Two sample posts a file may hold when the server starts.  The files: none,
\* an unreadable one, "not json", no content, a truncated array, the text []
\* and an array of the two posts.
SampleOld ==
  [Title |-> "Old", Content |-> "text", CreatedAt |-> "2024-12-31",
   Author |-> "u", ViewCount |-> 2, LastViewed |-> "2024-12-31"]
SampleNew ==
  [Title |-> "", Content |-> "", CreatedAt |-> "2024-12-31",
   Author |-> "", ViewCount |-> 0, LastViewed |-> "2024-12-31"]

InitFiles ==
  { FileOf("missing", <<>>),
    FileOf("unreadable", Marshal(<<>>)),
    FileOf("present", <<Tok("bad", "not json", 0)>>),
    FileOf("present", <<>>),
    FileOf("present", SubSeq(Marshal(<<SampleOld>>), 1, 5)),
    FileOf("present", <<Punct("["), Punct("]")>>),
    FileOf("present", Marshal(<<SampleOld, SampleNew>>)) }

Init ==
  /\ file \in InitFiles
  /\ today = 1
  /\ pc = [p \in Procs |-> "idle"]
  /\ kind = [p \in Procs |-> "none"]
  /\ req = [p \in Procs |-> NoReq]
  /\ posts = [p \in Procs |-> <<>>]
  /\ newPost = [p \in Procs |-> ZeroPost]
  /\ result = [p \in Procs |-> NoResult]
  /\ ncalls = 0
  /\ nfaults = 0
  /\ lastWriter = 0
  /\ good = LoadPost(file).posts
  /\ prevGood = <<>>
  /\ aux = [p \in Procs |-> NoAux]
  /\ hist = NoHist
  /\ log = [NoLog EXCEPT !.init0 = LoadPost(file).posts]

\* ----------------------------------------------------------------- actions
\* A new call is served by the first goroutine that is free (the goroutines
\* are interchangeable).
Free(p) == pc[p] = "idle" /\ \A q \in Procs : q < p => pc[q] # "idle"

\* A call begins: every running call stops being solo.
Begin(p) ==
  [q \in Procs |->
     IF q = p
     THEN [NoAux EXCEPT !.fileAtCall = file,
                        !.solo = \A o \in Procs \ {p} : pc[o] = "idle",
                        !.prev = IF \A o \in Procs \ {p} : pc[o] = "idle"
                                 THEN hist ELSE NoHist]
     ELSE [aux[q] EXCEPT !.solo = FALSE]]

\* The file becomes f: a well-formed content is the newly persisted collection.
Persist(f) ==
  /\ file' = f
  /\ LET l == LoadPost(f) IN
     IF f # file /\ l.err = NoErr
     THEN good' = l.posts /\ prevGood' = good
     ELSE UNCHANGED <<good, prevGood>>

\* time.Now(): the day read is today or, the clock having moved on since it
\* was last read, a later day.
Now(d) == d \in today..MaxDay /\ today' = d

\* GetPosts is called: posts := &pb.Posts{Posts: make([]*pb.Post, 0)}.
GetPostsCall(p) ==
  /\ Free(p)
  /\ ncalls < MaxCalls
  /\ ncalls' = ncalls + 1
  /\ kind' = [kind EXCEPT ![p] = "get"]
  /\ posts' = [posts EXCEPT ![p] = <<>>]
  /\ pc' = [pc EXCEPT ![p] = "load"]
  /\ aux' = Begin(p)
  /\ log' = LogCall(p)
  /\ UNCHANGED <<file, today, req, newPost, result, nfaults, lastWriter, good, prevGood, hist>>

\* CreatePost is called: newPost is built from the request and the clock,
\* then posts is made.
CreatePostCall(p, r) ==
  /\ Free(p)
  /\ ncalls < MaxCalls
  /\ ncalls' = ncalls + 1
  /\ kind' = [kind EXCEPT ![p] = "create"]
  /\ req' = [req EXCEPT ![p] = r]
  /\ \E d \in 1..MaxDay :
       /\ Now(d)
       /\ newPost' = [newPost EXCEPT ![p] = BuildPost(r, d)]
       /\ aux' = [Begin(p) EXCEPT ![p].clock = d]
  /\ posts' = [posts EXCEPT ![p] = <<>>]
  /\ pc' = [pc EXCEPT ![p] = "load"]
  /\ log' = LogCall(p)
  /\ UNCHANGED <<file, result, nfaults, lastWriter, good, prevGood, hist>>

\* Another call's savePosts has opened the file and not yet written.
MidSave(p) ==
  \E q \in Procs \ {p} : pc[q] = "write" /\ lastWriter = q /\ aux[q].clean

\* GetPosts: if err := loadPost(posts); err != nil { return nil, err }
GetPostsLoad(p) ==
  /\ pc[p] = "load" /\ kind[p] = "get"
  /\ LET l == LoadPost(file) IN
     IF l.err # NoErr
     THEN /\ result' = [result EXCEPT ![p] = [NoResult EXCEPT !.err = l.err]]
          /\ pc' = [pc EXCEPT ![p] = "done"]
          /\ aux' = [aux EXCEPT ![p].failedAt = "load",
                                ![p].steps = Append(@, "load"),
                                ![p].fileAtLoad = file,
                                ![p].midSave = MidSave(p)]
          /\ UNCHANGED posts
     ELSE /\ posts' = [posts EXCEPT ![p] = l.posts]
          /\ pc' = [pc EXCEPT ![p] = "mutate"]
          /\ aux' = [aux EXCEPT ![p].loaded = l.posts,
                                ![p].steps = Append(@, "load"),
                                ![p].fileAtLoad = file,
                                ![p].midSave = MidSave(p)]
          /\ UNCHANGED result
  /\ UNCHANGED <<file, today, kind, req, newPost, ncalls, nfaults, lastWriter, good, prevGood, hist, log>>

\* CreatePost: a loadPost error is wrapped into a new Internal status;
\* otherwise newPost is appended to the loaded posts.
CreatePostLoad(p) ==
  /\ pc[p] = "load" /\ kind[p] = "create"
  /\ LET l == LoadPost(file) IN
     IF l.err # NoErr
     THEN /\ result' = [result EXCEPT
                          ![p] = [NoResult EXCEPT !.err = CreateLoadErr(l.err)]]
          /\ pc' = [pc EXCEPT ![p] = "done"]
          /\ aux' = [aux EXCEPT ![p].failedAt = "load",
                                ![p].steps = Append(@, "load"),
                                ![p].fileAtLoad = file,
                                ![p].midSave = MidSave(p)]
          /\ UNCHANGED posts
     ELSE /\ posts' = [posts EXCEPT ![p] = AppendPost(l.posts, newPost[p])]
          /\ pc' = [pc EXCEPT ![p] = "save"]
          /\ aux' = [aux EXCEPT ![p].loaded = l.posts,
                                ![p].steps = @ \o <<"load", "mutate">>,
                                ![p].fileAtLoad = file,
                                ![p].midSave = MidSave(p)]
          /\ UNCHANGED result
  /\ UNCHANGED <<file, today, kind, req, newPost, ncalls, nfaults, lastWriter, good, prevGood, hist, log>>

\* GetPosts: every post gets ViewCount += 1 and LastViewed = today.
GetPostsTouch(p) ==
  /\ pc[p] = "mutate" /\ kind[p] = "get"
  /\ \E d \in 1..MaxDay :
       /\ Now(d)
       /\ posts' = [posts EXCEPT ![p] = TouchAll(posts[p], d)]
       /\ aux' = [aux EXCEPT ![p].clock = d, ![p].steps = Append(@, "mutate")]
  /\ pc' = [pc EXCEPT ![p] = "save"]
  /\ UNCHANGED <<file, kind, req, newPost, result, ncalls, nfaults,
                 lastWriter, good, prevGood, hist, log>>

\* The error a handler returns when savePosts fails.
SaveErr(k, cause) == IF k = "get" THEN GetSaveErr(cause) ELSE CreateSaveErr(cause)

\* The value a handler returns after a successful save.
Reply(k, ps, np) ==
  IF k = "get"
  THEN [ok |-> TRUE, posts |-> ps, post |-> ZeroPost, err |-> NoErr]
  ELSE [ok |-> TRUE, posts |-> <<>>, post |-> np, err |-> NoErr]

\* Another goroutine changed the file under every save that is under way.
Disturb(p, a) ==
  [q \in Procs |->
     IF q # p /\ pc[q] = "write" THEN [a[q] EXCEPT !.clean = FALSE] ELSE a[q]]

\* savePosts, first half: os.WriteFile opens the file with O_TRUNC.  The open
\* fails and leaves the file alone, or empties it.
SaveOpen(p) ==
  /\ pc[p] = "save"
  /\ \/ /\ nfaults < MaxFaults
        /\ nfaults' = nfaults + 1
        /\ result' = [result EXCEPT
                        ![p] = [NoResult EXCEPT !.err = SaveErr(kind[p], "open: EACCES")]]
        /\ pc' = [pc EXCEPT ![p] = "done"]
        /\ aux' = [aux EXCEPT ![p].failedAt = "open", ![p].steps = Append(@, "save")]
        /\ Persist(OpenTrunc(file, FALSE))
        /\ UNCHANGED lastWriter
     \/ /\ Persist(OpenTrunc(file, TRUE))
        /\ lastWriter' = p
        /\ pc' = [pc EXCEPT ![p] = "write"]
        /\ aux' = Disturb(p, [aux EXCEPT ![p].wrote = TRUE, ![p].clean = TRUE,
                                         ![p].steps = Append(@, "save")])
        /\ UNCHANGED <<result, nfaults>>
  /\ log' = LogSave(p)
  /\ UNCHANGED <<today, kind, req, posts, newPost, ncalls, hist>>

\* savePosts, second half: the marshalled posts are written from offset 0.
\* The write completes, or fails after a part of the data.
SaveWrite(p) ==
  /\ pc[p] = "write"
  /\ LET data == Marshal(posts[p]) IN
     \/ /\ Persist(FileOf("present", WriteAt0(file.data, data)))
        /\ result' = [result EXCEPT ![p] = Reply(kind[p], posts[p], newPost[p])]
        /\ aux' = Disturb(p, aux)
        /\ UNCHANGED <<nfaults, log>>
     \/ /\ nfaults < MaxFaults
        /\ nfaults' = nfaults + 1
        /\ \E n \in {0, Len(data) \div 2} :
             Persist(FileOf("present", WriteAt0(file.data, SubSeq(data, 1, n))))
        /\ result' = [result EXCEPT
                        ![p] = [NoResult EXCEPT !.err = SaveErr(kind[p], "write: ENOSPC")]]
        /\ aux' = Disturb(p, [aux EXCEPT ![p].failedAt = "write"])
        /\ log' = [log EXCEPT !.partial = TRUE]
  /\ lastWriter' = p
  /\ pc' = [pc EXCEPT ![p] = "done"]
  /\ UNCHANGED <<today, kind, req, posts, newPost, ncalls, hist>>

\* The handler's return value goes back to the caller; the goroutine ends.
Return(p) ==
  /\ pc[p] = "done"
  /\ hist' = IF result[p].ok /\ aux[p].solo
             THEN [kind |-> kind[p], ok |-> TRUE, solo |-> TRUE,
                   posts |-> result[p].posts, post |-> result[p].post,
                   before |-> aux[p].loaded, clock |-> aux[p].clock]
             ELSE [NoHist EXCEPT !.kind = kind[p]]
  /\ pc' = [pc EXCEPT ![p] = "idle"]
  /\ kind' = [kind EXCEPT ![p] = "none"]
  /\ req' = [req EXCEPT ![p] = NoReq]
  /\ posts' = [posts EXCEPT ![p] = <<>>]
  /\ newPost' = [newPost EXCEPT ![p] = ZeroPost]
  /\ result' = [result EXCEPT ![p] = NoResult]
  /\ aux' = [aux EXCEPT ![p] = NoAux]
  /\ UNCHANGED <<file, today, ncalls, nfaults, lastWriter, good, prevGood, log>>

\* The process dies while calls are running (the tutorial runs the server
\* from a terminal) and main starts again: every goroutine is gone.  A write
\* that was under way has put none or a part of its data into the file.
Crash ==
  /\ nfaults < MaxFaults
  /\ nfaults' = nfaults + 1
  /\ \E p \in Procs : pc[p] # "idle"
  /\ \/ /\ \A p \in Procs : pc[p] # "write"
        /\ UNCHANGED <<file, good, prevGood, lastWriter, log>>
     \/ \E p \in Procs :
          /\ pc[p] = "write"
          /\ \E n \in {0, Len(Marshal(posts[p])) \div 2} :
               Persist(FileOf("present",
                              WriteAt0(file.data, SubSeq(Marshal(posts[p]), 1, n))))
          /\ lastWriter' = p
          /\ log' = [log EXCEPT !.torn = @ \/ (lastWriter = p /\ aux[p].clean),
                                !.partial = TRUE]
  /\ pc' = [p \in Procs |-> "idle"]
  /\ kind' = [p \in Procs |-> "none"]
  /\ req' = [p \in Procs |-> NoReq]
  /\ posts' = [p \in Procs |-> <<>>]
  /\ newPost' = [p \in Procs |-> ZeroPost]
  /\ result' = [p \in Procs |-> NoResult]
  /\ aux' = [p \in Procs |-> NoAux]
  /\ hist' = [NoHist EXCEPT !.kind = "crash"]
  /\ UNCHANGED <<today, ncalls>>

Next ==
  \/ \E p \in Procs : GetPostsCall(p)
  \/ \E p \in Procs : \E r \in Requests : CreatePostCall(p, r)
  \/ \E p \in Procs : GetPostsLoad(p)
  \/ \E p \in Procs : CreatePostLoad(p)
  \/ \E p \in Procs : GetPostsTouch(p)
  \/ \E p \in Procs : SaveOpen(p)
  \/ \E p \in Procs : SaveWrite(p)
  \/ \E p \in Procs : Return(p)

Spec == Init /\ [][Next]_vars

\* ---------------------------------------------- the server and its crashes
\* The server started on one of the given files, on the last day of the
\* calendar; counting says whether the calls are counted.
StartOn(files, counting) ==
  /\ file \in files
  /\ today = MaxDay
  /\ pc = [p \in Procs |-> "idle"]
  /\ kind = [p \in Procs |-> "none"]
  /\ req = [p \in Procs |-> NoReq]
  /\ posts = [p \in Procs |-> <<>>]
  /\ newPost = [p \in Procs |-> ZeroPost]
  /\ result = [p \in Procs |-> NoResult]
  /\ ncalls = 0
  /\ nfaults = 0
  /\ lastWriter = 0
  /\ good = LoadPost(file).posts
  /\ prevGood = <<>>
  /\ aux = [p \in Procs |-> NoAux]
  /\ hist = NoHist
  /\ log = [NoLog EXCEPT !.init0 = LoadPost(file).posts, !.kept = counting]

WellFormedFiles ==
  { FileOf("present", <<Punct("["), Punct("]")>>),
    FileOf("present", Marshal(<<SampleOld, SampleNew>>)) }

CrashInit == StartOn(WellFormedFiles, FALSE)

CrashNext == Next \/ Crash

CrashSpec == CrashInit /\ [][CrashNext]_vars

\* ------------------------------------------- the server, its calls counted
LedgerInit == StartOn(WellFormedFiles, TRUE)

LedgerSpec == LedgerInit /\ [][Next]_vars

\* ------------------------------------------ the server on much viewed posts
\* Files whose posts have a ViewCount at the int64 limit or one below it.
SampleMax == [SampleOld EXCEPT !.ViewCount = MaxInt64]
SampleNearMax == [SampleOld EXCEPT !.ViewCount = MaxInt64 - 1]

OverflowFiles ==
  { FileOf("present", Marshal(<<SampleMax>>)),
    FileOf("present", Marshal(<<SampleNew, SampleNearMax>>)) }

OverflowInit ==
  /\ file \in OverflowFiles
  /\ today = 1
  /\ pc = [p \in Procs |-> "idle"]
  /\ kind = [p \in Procs |-> "none"]
  /\ req = [p \in Procs |-> NoReq]
  /\ posts = [p \in Procs |-> <<>>]
  /\ newPost = [p \in Procs |-> ZeroPost]
  /\ result = [p \in Procs |-> NoResult]
  /\ ncalls = 0
  /\ nfaults = 0
  /\ lastWriter = 0
  /\ good = LoadPost(file).posts
  /\ prevGood = <<>>
  /\ aux = [p \in Procs |-> NoAux]
  /\ hist = NoHist
  /\ log = [NoLog EXCEPT !.init0 = LoadPost(file).posts]

OverflowSpec == OverflowInit /\ [][Next]_vars

\* ------------------------------------------- savePosts then loadPost, alone
\* The collections the round trip is tried on: posts with empty and non-empty
\* strings, and ViewCount zero, small, negative and at the int64 limits.
RoundTripPosts ==
  [Title : {"", "T"}, Content : {"c"}, CreatedAt : {"", "2025-01-01"},
   Author : {"u"}, ViewCount : {0, 1, -1, MaxInt64, MinInt64},
   LastViewed : {"", "2025-01-02"}]

RECURSIVE SeqsUpTo(_, _)
SeqsUpTo(S, n) ==
  IF n = 0 THEN {<<>>}
  ELSE LET shorter == SeqsUpTo(S, n - 1) IN
       shorter \cup {Append(ps, x) : ps \in {q \in shorter : Len(q) = n - 1}, x \in S}

RoundTripInit ==
  /\ file \in {FileOf("missing", <<>>),
               FileOf("present", Marshal(<<SampleOld, SampleNew>>))}
  /\ today = 1
  /\ pc = [p \in Procs |-> IF p = 1 THEN "rt_save" ELSE "idle"]
  /\ kind = [p \in Procs |-> "none"]
  /\ req = [p \in Procs |-> NoReq]
  /\ \E c \in SeqsUpTo(RoundTripPosts, MaxLen) :
       posts = [p \in Procs |-> IF p = 1 THEN c ELSE <<>>]
  /\ newPost = [p \in Procs |-> ZeroPost]
  /\ result = [p \in Procs |-> NoResult]
  /\ ncalls = 0
  /\ nfaults = 0
  /\ lastWriter = 0
  /\ good = LoadPost(file).posts
  /\ prevGood = <<>>
  /\ aux = [p \in Procs |-> NoAux]
  /\ hist = NoHist
  /\ log = [NoLog EXCEPT !.init0 = LoadPost(file).posts]

\* savePosts(posts), nothing else running.
RoundTripSave ==
  /\ pc[1] = "rt_save"
  /\ Persist(SavePosts(file, posts[1]))
  /\ lastWriter' = 1
  /\ pc' = [pc EXCEPT ![1] = "rt_load"]
  /\ UNCHANGED <<today, kind, req, posts, newPost, result, ncalls, nfaults, aux, hist, log>>

\* loadPost into a fresh pb.Posts, right after.
RoundTripLoad ==
  /\ pc[1] = "rt_load"
  /\ LET l == LoadPost(file) IN
     result' = [result EXCEPT
                  ![1] = [ok |-> l.err = NoErr, posts |-> l.posts,
                          post |-> ZeroPost, err |-> l.err]]
  /\ pc' = [pc EXCEPT ![1] = "rt_done"]
  /\ UNCHANGED <<file, today, kind, req, posts, newPost, ncalls, nfaults,
                 lastWriter, good, prevGood, aux, hist, log>>

RoundTripNext == RoundTripSave \/ RoundTripLoad

RoundTripSpec == RoundTripInit /\ [][RoundTripNext]_vars

\* ------------------------------------------------------------- properties
\* A call has returned, with or without an error.
Done(p) == pc[p] = "done"
Succeeded(p) == Done(p) /\ result[p].ok
Failed(p) == Done(p) /\ ~result[p].ok

\* The call's save was the last change of the file and nothing else changed
\* the file while it ran.
SaveStands(p) == lastWriter = p /\ aux[p].clean

\* What a loadPost of the file as it is now would yield.
Stored == LoadPost(file)

\* A post without the two fields a listing changes.
Ident(post) ==
  [Title |-> post.Title, Content |-> post.Content, Author |-> post.Author,
   CreatedAt |-> post.CreatedAt]
IdentSeq(ps) == [i \in 1..Len(ps) |-> Ident(ps[i])]
IsPrefix(a, b) == Len(a) <= Len(b) /\ SubSeq(b, 1, Len(a)) = a

\* C1: two CreatePost calls that loaded the same collection and both returned
\* without error, the save of the second standing: each call returned its own
\* post, and the file holds that collection plus the second call's post only.
C1_LostUpdate ==
  \A p, q \in Procs :
    (/\ p # q
     /\ kind[p] = "create" /\ kind[q] = "create"
     /\ Succeeded(p) /\ Succeeded(q)
     /\ aux[p].loaded = aux[q].loaded
     /\ SaveStands(q))
    => /\ result[p].post = newPost[p]
       /\ result[q].post = newPost[q]
       /\ Stored.err = NoErr
       /\ Stored.posts = Append(aux[q].loaded, newPost[q])
       /\ Len(Stored.posts) = Len(aux[p].loaded) + 1

\* C1 happens: the two posts differ, the initial collection is not empty, and
\* the first call's post is nowhere in the file.
C1_Witness ==
  \E p, q \in Procs :
    /\ p # q
    /\ kind[p] = "create" /\ kind[q] = "create"
    /\ Succeeded(p) /\ Succeeded(q)
    /\ aux[p].loaded = aux[q].loaded
    /\ Len(aux[p].loaded) = 2
    /\ SaveStands(q)
    /\ newPost[p].Title # newPost[q].Title
    /\ Stored.posts = Append(aux[q].loaded, newPost[q])
    /\ \A i \in 1..Len(Stored.posts) : Stored.posts[i] # newPost[p]

\* C2 as stated: the collection persisted before is always a prefix, by
\* position, of the collection persisted now (posts compared without
\* ViewCount and LastViewed).
C2_NeverRemoved == IsPrefix(IdentSeq(prevGood), IdentSeq(good))

\* C2 amended: a call that ran alone and returned without error persisted a
\* collection of which the collection persisted before it is a prefix; and the
\* standing save of any successful call keeps every post the call loaded, in
\* order.
C2_AloneKeepsPosts ==
  \A p \in Procs :
    /\ (Succeeded(p) /\ aux[p].solo)
         => /\ Stored.err = NoErr
            /\ good = Stored.posts
            /\ prevGood = LoadPost(aux[p].fileAtCall).posts
            /\ IsPrefix(IdentSeq(prevGood), IdentSeq(good))
    /\ (Succeeded(p) /\ SaveStands(p))
         => IsPrefix(IdentSeq(aux[p].loaded), IdentSeq(Stored.posts))

\* C2 amended happens: a call alone added a post to a collection of two.
C2_Witness ==
  \E p \in Procs :
    /\ Succeeded(p) /\ aux[p].solo /\ kind[p] = "create"
    /\ Len(prevGood) = 2 /\ Len(good) = 3
    /\ aux[p].prev.kind = "get"

\* C3: a GetPosts that returns without error returns the posts it loaded, as
\* many and in the same order, each with ViewCount one more and LastViewed the
\* current date, every other field as loaded; what it passed to savePosts is
\* what it returns, and that is what the file holds when its save stands.
C3_GetPosts ==
  \A p \in Procs :
    (Succeeded(p) /\ kind[p] = "get")
    => /\ Len(result[p].posts) = Len(aux[p].loaded)
       /\ \A i \in 1..Len(aux[p].loaded) :
            /\ result[p].posts[i].ViewCount = aux[p].loaded[i].ViewCount + 1
            /\ result[p].posts[i].LastViewed = FormatDate(aux[p].clock)
            /\ Ident(result[p].posts[i]) = Ident(aux[p].loaded[i])
       /\ aux[p].clock \in 1..today
       /\ result[p].posts = posts[p]
       /\ SaveStands(p) => (Stored.err = NoErr /\ Stored.posts = result[p].posts)

C3_Witness ==
  \E p \in Procs :
    /\ Succeeded(p) /\ kind[p] = "get" /\ SaveStands(p)
    /\ Len(result[p].posts) = 2
    /\ result[p].posts[1].ViewCount = 3
    /\ result[p].posts[2].ViewCount = 1
    /\ result[p].posts[1].LastViewed = FormatDate(2)

\* C4: a CreatePost that returns without error passed to savePosts the loaded
\* collection with one post appended at the end; the post has the request's
\* title, content and author, ViewCount 0, CreatedAt and LastViewed the
\* current date whatever CreatedAt the request carried; the call returns that
\* post and no collection.
C4_CreatePost ==
  \A p \in Procs :
    (Succeeded(p) /\ kind[p] = "create")
    => /\ posts[p] = Append(aux[p].loaded, newPost[p])
       /\ newPost[p].Title = req[p].Title
       /\ newPost[p].Content = req[p].Content
       /\ newPost[p].Author = req[p].Author
       /\ newPost[p].ViewCount = 0
       /\ newPost[p].CreatedAt = FormatDate(aux[p].clock)
       /\ newPost[p].LastViewed = FormatDate(aux[p].clock)
       /\ aux[p].clock \in 1..today
       /\ result[p].post = newPost[p]
       /\ result[p].posts = <<>>
       /\ SaveStands(p) => (Stored.err = NoErr /\ Stored.posts = posts[p])

C4_Witness ==
  \E p \in Procs :
    /\ Succeeded(p) /\ kind[p] = "create" /\ SaveStands(p)
    /\ req[p].CreatedAt = "1999-12-31"
    /\ result[p].post.CreatedAt = FormatDate(2)
    /\ Len(aux[p].loaded) = 2
    /\ Stored.posts[3] = result[p].post

\* C5 as stated: a call that returned an error left the file as it was when
\* the call began.
C5_NothingPersisted ==
  \A p \in Procs : Failed(p) => file = aux[p].fileAtCall

\* C5 amended: a call that failed in loadPost, or in savePosts before the file
\* was opened, has not changed the file, and the file is as it was when the
\* call began if no other call ran meanwhile; a call that failed in the write
\* has emptied the file, and when its save stands the file holds only a part
\* of the data and no longer parses.
C5_FailureBeforeWrite ==
  \A p \in Procs :
    Failed(p)
    => /\ aux[p].failedAt \in {"load", "open"}
            => /\ ~aux[p].wrote
               /\ aux[p].solo => file = aux[p].fileAtCall
       /\ aux[p].failedAt = "write"
            => /\ aux[p].wrote
               /\ SaveStands(p) => Stored.err = ParseErr

\* C5 amended happens: an open failed after a successful load; the collection
\* is still in the file.
C5_Witness ==
  \E p \in Procs :
    /\ Failed(p) /\ aux[p].failedAt = "open" /\ aux[p].solo
    /\ Len(aux[p].loaded) = 2
    /\ Stored.posts = aux[p].loaded

\* Content that cannot be a JSON array of posts: nothing at all, text that is
\* no JSON, or text that does not end with the closing bracket.
Malformed(data) ==
  \/ data = <<>>
  \/ data[1].k = "bad"
  \/ data[Len(data)].k # "]"

StoreLoadErrors == {ReadErr("ENOENT"), ReadErr("EACCES"), ParseErr}
StoreSaveCauses == {"open: EACCES", "write: ENOSPC"}

\* An Internal status whose message carries the whole text of the error e.
Wrapped(e) ==
  [code |-> "Internal", msg |-> "failed to load posts: ",
   cause |-> "rpc error: code = " \o e.code \o " desc = " \o e.msg \o e.cause]

\* C7: GetPosts returns a loadPost error as it is; CreatePost returns it
\* wrapped into an Internal status; both return a savePosts error wrapped into
\* an Internal status that carries the cause; a failed call returns no post
\* and no collection.
C7_ErrorPropagation ==
  \A p \in Procs :
    Failed(p)
    => /\ result[p].post = ZeroPost
       /\ result[p].posts = <<>>
       /\ result[p].err # NoErr
       /\ aux[p].failedAt \in {"load", "open", "write"}
       /\ (kind[p] = "get" /\ aux[p].failedAt = "load")
            => /\ result[p].err \in StoreLoadErrors
               /\ aux[p].solo => result[p].err = LoadPost(aux[p].fileAtCall).err
       /\ (kind[p] = "create" /\ aux[p].failedAt = "load")
            => /\ result[p].err.code = "Internal"
               /\ \E e \in StoreLoadErrors : result[p].err = Wrapped(e)
               /\ aux[p].solo
                    => result[p].err = Wrapped(LoadPost(aux[p].fileAtCall).err)
       /\ aux[p].failedAt \in {"open", "write"}
            => /\ result[p].err.code = "Internal"
               /\ result[p].err.msg = (IF kind[p] = "get" THEN "failed to save posts "
                                        ELSE "failed to save posts: ")
               /\ result[p].err.cause \in StoreSaveCauses
               /\ aux[p].failedAt = "open" <=> result[p].err.cause = "open: EACCES"

\* C7 happens: CreatePost failed in loadPost on a missing file.
C7_Witness ==
  \E p \in Procs :
    /\ Failed(p) /\ kind[p] = "create" /\ aux[p].failedAt = "load"
    /\ file.st = "missing"
    /\ result[p].err = Wrapped(ReadErr("ENOENT"))

\* C8: GetPosts twice in succession, each alone and without error: the second
\* result has the posts of the first, each with ViewCount exactly one more,
\* and in each result LastViewed is the date of that call.
C8_TwiceInSuccession ==
  \A p \in Procs :
    (/\ Succeeded(p) /\ kind[p] = "get" /\ aux[p].solo
     /\ aux[p].prev.kind = "get" /\ aux[p].prev.ok /\ aux[p].prev.solo)
    => /\ Len(result[p].posts) = Len(aux[p].prev.posts)
       /\ aux[p].prev.clock <= aux[p].clock
       /\ \A i \in 1..Len(result[p].posts) :
            /\ result[p].posts[i].ViewCount = aux[p].prev.posts[i].ViewCount + 1
            /\ result[p].posts[i].ViewCount > aux[p].prev.posts[i].ViewCount
            /\ result[p].posts[i].LastViewed = FormatDate(aux[p].clock)
            /\ aux[p].prev.posts[i].LastViewed = FormatDate(aux[p].prev.clock)
            /\ Ident(result[p].posts[i]) = Ident(aux[p].prev.posts[i])

\* C8 happens: two listings of two posts, the second on the next day.
C8_Witness ==
  \E p \in Procs :
    /\ Succeeded(p) /\ kind[p] = "get" /\ aux[p].solo
    /\ aux[p].prev.kind = "get" /\ aux[p].prev.ok /\ aux[p].prev.solo
    /\ Len(result[p].posts) = 2
    /\ aux[p].prev.clock = 1 /\ aux[p].clock = 2
    /\ result[p].posts[1].ViewCount = 4

\* C9: CreatePost then GetPosts, each alone and without error: the listing
\* ends with the created post, its ViewCount 1, after the posts that were
\* there before the CreatePost, in their order.
C9_CreateThenList ==
  \A p \in Procs :
    (/\ Succeeded(p) /\ kind[p] = "get" /\ aux[p].solo
     /\ aux[p].prev.kind = "create" /\ aux[p].prev.ok /\ aux[p].prev.solo)
    => LET n == Len(result[p].posts) IN
       /\ n = Len(aux[p].prev.before) + 1
       /\ result[p].posts[n].Title = aux[p].prev.post.Title
       /\ result[p].posts[n].ViewCount = 1
       /\ Ident(result[p].posts[n]) = Ident(aux[p].prev.post)
       /\ IdentSeq(SubSeq(result[p].posts, 1, n - 1)) = IdentSeq(aux[p].prev.before)

\* C9 happens: a post "A" created after two posts, then listed.
C9_Witness ==
  \E p \in Procs :
    /\ Succeeded(p) /\ kind[p] = "get" /\ aux[p].solo
    /\ aux[p].prev.kind = "create" /\ aux[p].prev.ok /\ aux[p].prev.solo
    /\ Len(aux[p].prev.before) = 2
    /\ result[p].posts[3].Title = "A"
    /\ result[p].posts[1].Title = "Old"

\* C10: savePosts(c) followed by loadPost yields c: as many posts, in the same
\* order, every field of every post the same.
C10_RoundTrip ==
  pc[1] = "rt_done"
  => /\ result[1].ok
     /\ Len(result[1].posts) = Len(posts[1])
     /\ \A i \in 1..Len(posts[1]) :
          \A f \in StringFields \cup {"ViewCount"} :
            result[1].posts[i][f] = posts[1][i][f]
     /\ result[1].posts = posts[1]

\* C10 happens: a collection with omitted (zero) fields and a ViewCount at the
\* int64 limit came back.
C10_Witness ==
  /\ pc[1] = "rt_done"
  /\ Len(posts[1]) = 2
  /\ posts[1][1].Title = "" /\ posts[1][1].ViewCount = 0
  /\ posts[1][2].ViewCount = MaxInt64
  /\ result[1].posts = posts[1]

\* The text of an empty array, as a file.
EmptyArrayFile == FileOf("present", <<Punct("["), Punct("]")>>)

\* C11: a GetPosts that began alone on a file holding the empty array, and met
\* no file-system failure, returns without error an empty sequence; the file
\* holds the empty array afterwards, the same text as before.
C11_EmptyCollection ==
  \A p \in Procs :
    (/\ Done(p) /\ kind[p] = "get" /\ aux[p].solo
     /\ aux[p].fileAtCall = EmptyArrayFile
     /\ aux[p].failedAt \notin {"open", "write"})
    => /\ result[p].ok
       /\ result[p].err = NoErr
       /\ result[p].posts = <<>>
       /\ aux[p].wrote
       /\ Stored.err = NoErr
       /\ Stored.posts = <<>>
       /\ file = aux[p].fileAtCall

\* C11 happens: such a GetPosts has rewritten the file and returned.
C11_Witness ==
  \E p \in Procs :
    /\ Succeeded(p) /\ kind[p] = "get" /\ aux[p].solo
    /\ aux[p].fileAtCall = EmptyArrayFile
    /\ aux[p].wrote /\ SaveStands(p)
    /\ result[p].posts = <<>>
    /\ file = EmptyArrayFile

\* C12: the file always holds the collection passed to the savePosts that
\* completed last; and after a CreatePost and a GetPosts that loaded the same
\* collection have both returned without error, the file holds the collection
\* of one of them, without the other's change.
C12_LastSaveWins ==
  /\ \A p \in Procs :
       (Succeeded(p) /\ lastWriter = p)
       => (Stored.err = NoErr /\ Stored.posts = posts[p])
  /\ \A p, q \in Procs :
       (/\ kind[p] = "create" /\ kind[q] = "get"
        /\ Succeeded(p) /\ Succeeded(q)
        /\ aux[p].loaded = aux[q].loaded)
       => /\ Stored.err = NoErr
          /\ Stored.posts = posts[p] \/ Stored.posts = posts[q]

\* C13: once a crash has interrupted a save between its open and the end of
\* its write, the file is empty or holds a truncated array; loadPost fails with
\* the parse error, and so does every GetPosts and CreatePost from then on,
\* none of them changing the file.
C13_CrashMidSave ==
  log.torn
  => /\ file.st = "present"
     /\ file.data = <<>> \/ file.data[Len(file.data)].k # "]"
     /\ Stored.err = ParseErr
     /\ Stored.err.msg = "failed to parse post data "
     /\ \A p \in Procs :
          /\ pc[p] \notin {"mutate", "save", "write"}
          /\ Done(p)
               => /\ Failed(p) /\ aux[p].failedAt = "load" /\ ~aux[p].wrote
                  /\ kind[p] = "get" => result[p].err = ParseErr
                  /\ kind[p] = "create" => result[p].err = Wrapped(ParseErr)

\* C13 happens: after a crash in the middle of a write the file holds a part
\* of an array of posts, and a later CreatePost has failed on it.
C13_Witness ==
  /\ log.torn
  /\ Len(file.data) > 2
  /\ \E p \in Procs : Failed(p) /\ kind[p] = "create" /\ aux[p].failedAt = "load"

\* C13 also happens with the file left empty, a GetPosts failing on it.
C13_WitnessEmpty ==
  /\ log.torn
  /\ file.data = <<>>
  /\ \E p \in Procs : Failed(p) /\ kind[p] = "get" /\ aux[p].failedAt = "load"

\* The steps of a handler, in the order of the code.
Cycle == <<"load", "mutate", "save">>

\* C14: a call takes its steps in the order loadPost, mutation, savePosts and
\* none of them twice; a call that has returned has run loadPost exactly once
\* and, unless loadPost failed, the mutation once and savePosts once; what a
\* call returns and passes to savePosts is determined by the file as its
\* loadPost read it, its request and the date it read, whatever calls came
\* before it.
C14_OneCycle ==
  \A p \in Procs :
    /\ IsPrefix(aux[p].steps, Cycle)
    /\ pc[p] = "save" => aux[p].steps = <<"load", "mutate">>
    /\ Done(p) => aux[p].steps = (IF aux[p].failedAt = "load" THEN <<"load">> ELSE Cycle)
    /\ (Succeeded(p) /\ kind[p] = "get")
         => LET was == LoadPost(aux[p].fileAtLoad).posts IN
            /\ result[p].posts =
                 [i \in 1..Len(was) |->
                    [was[i] EXCEPT !.ViewCount = IF @ = MaxInt64 THEN MinInt64 ELSE @ + 1,
                                   !.LastViewed = FormatDate(aux[p].clock)]]
            /\ posts[p] = result[p].posts
    /\ (Succeeded(p) /\ kind[p] = "create")
         => LET made == [Title |-> req[p].Title, Content |-> req[p].Content,
                         CreatedAt |-> FormatDate(aux[p].clock),
                         Author |-> req[p].Author, ViewCount |-> 0,
                         LastViewed |-> FormatDate(aux[p].clock)]
            IN /\ result[p].post = made
               /\ posts[p] = Append(LoadPost(aux[p].fileAtLoad).posts, made)

\* C14 happens: the second of two calls has gone through its three steps and
\* returned the two posts the first call left in the file.
C14_Witness ==
  \E p \in Procs :
    /\ Succeeded(p) /\ kind[p] = "get" /\ aux[p].steps = Cycle
    /\ aux[p].prev.ok /\ aux[p].prev.kind = "get"
    /\ ncalls = 2
    /\ Len(result[p].posts) = 2
    /\ result[p].posts[1].ViewCount = 4

\* The call has its mutated collection: loadPost succeeded and the mutation
\* is done.
Mutated(p) == pc[p] \in {"save", "write", "done"} /\ aux[p].failedAt # "load"

\* C15: the collection GetPosts saves and returns has as many posts as the one
\* loaded, in the same order, each with the Title, Content, Author and
\* CreatedAt it was loaded with; the collection CreatePost saves begins with
\* the loaded posts, every field as loaded; the file holds them so when the
\* call's save stands; and after a call that ran alone every post the file
\* held before the call is in its place with the CreatedAt it had.
C15_Frame ==
  \A p \in Procs :
       /\ (Mutated(p) /\ kind[p] = "get")
            => /\ Len(posts[p]) = Len(aux[p].loaded)
               /\ \A i \in 1..Len(posts[p]) :
                    /\ posts[p][i].Title = aux[p].loaded[i].Title
                    /\ posts[p][i].Content = aux[p].loaded[i].Content
                    /\ posts[p][i].Author = aux[p].loaded[i].Author
                    /\ posts[p][i].CreatedAt = aux[p].loaded[i].CreatedAt
       /\ (Succeeded(p) /\ kind[p] = "get")
            => IdentSeq(result[p].posts) = IdentSeq(aux[p].loaded)
       /\ (Mutated(p) /\ kind[p] = "create")
            => /\ Len(posts[p]) = Len(aux[p].loaded) + 1
               /\ SubSeq(posts[p], 1, Len(aux[p].loaded)) = aux[p].loaded
       /\ (Succeeded(p) /\ SaveStands(p))
            => LET now == Stored IN
               /\ now.err = NoErr
               /\ Len(now.posts) >= Len(aux[p].loaded)
               /\ \A i \in 1..Len(aux[p].loaded) :
                    /\ Ident(now.posts[i]) = Ident(aux[p].loaded[i])
                    /\ kind[p] = "create" => now.posts[i] = aux[p].loaded[i]
       /\ (Succeeded(p) /\ aux[p].solo)
            => LET now == Stored.posts
                   before == LoadPost(aux[p].fileAtCall).posts
               IN /\ Len(now) >= Len(before)
                  /\ \A i \in 1..Len(before) : now[i].CreatedAt = before[i].CreatedAt

\* C15 happens: a GetPosts on a later day, after a CreatePost, has saved the
\* three posts with the dates of their creation.
C15_Witness ==
  \E p \in Procs :
    /\ Succeeded(p) /\ kind[p] = "get" /\ SaveStands(p)
    /\ aux[p].clock = 2
    /\ Len(Stored.posts) = 3
    /\ Stored.posts[1].CreatedAt = "2024-12-31"
    /\ Stored.posts[3].CreatedAt = FormatDate(1)
    /\ Stored.posts[3].LastViewed = FormatDate(2)

\* Every post of the collection has a ViewCount of zero or more.
NonNegative(ps) == \A i \in 1..Len(ps) : ps[i].ViewCount >= 0

\* C16: the file having started with no negative ViewCount, no collection in
\* the file, no collection a GetPosts returns and no post a CreatePost returns
\* has a negative ViewCount.
C16_NonNegative ==
  NonNegative(log.init0)
  => /\ Stored.err = NoErr => NonNegative(Stored.posts)
     /\ NonNegative(good)
     /\ \A p \in Procs :
          Succeeded(p) => /\ NonNegative(result[p].posts)
                          /\ result[p].post.ViewCount >= 0

C17_WitnessRace ==
  /\ log.overlapped /\ nfaults = 0
  /\ Stored.err = NoErr
  /\ Len(log.made) = 1 /\ log.getSaves = 1
  /\ Len(Stored.posts) = Len(log.init0)
  /\ Len(log.init0) = 2
  /\ Stored.posts[1].ViewCount = 3
  /\ \A p \in Procs : Succeeded(p)

\* C18: a loadPost that runs while another call is between the open and the
\* write of its savePosts reads an empty file and fails with the parse error,
\* and the call returns that error without changing the file; and when nothing
\* has failed or crashed, a call that began on a well-formed file fails in
\* loadPost only in this way or on a text that the overlapping saves of two
\* other calls have mixed.
C18_LoadDuringSave ==
  \A p \in Procs :
    /\ aux[p].midSave
         => /\ Failed(p) /\ aux[p].failedAt = "load"
            /\ aux[p].fileAtLoad = FileOf("present", <<>>)
            /\ kind[p] = "get" => result[p].err = ParseErr
            /\ kind[p] = "create" => result[p].err = Wrapped(ParseErr)
            /\ ~aux[p].wrote
            /\ ~aux[p].solo
    /\ (/\ Failed(p) /\ aux[p].failedAt = "load"
        /\ nfaults = 0
        /\ LoadPost(aux[p].fileAtCall).err = NoErr)
         => /\ ~aux[p].solo
            /\ LoadPost(aux[p].fileAtLoad).err = ParseErr
            /\ aux[p].fileAtLoad.data = <<>> => aux[p].midSave
            /\ aux[p].fileAtLoad.data # <<>> => ncalls >= 3

\* C18 happens: nothing failed or crashed, a CreatePost has saved three posts
\* to a file that held two, and a GetPosts whose loadPost fell between that
\* save's open and its write has returned the parse error.
C18_Witness ==
  \E p, q \in Procs :
    /\ p # q
    /\ nfaults = 0 /\ ~log.partial /\ ~log.torn
    /\ Failed(p) /\ kind[p] = "get" /\ aux[p].midSave
    /\ result[p].err = ParseErr
    /\ LoadPost(aux[p].fileAtCall).err = NoErr
    /\ Succeeded(q) /\ kind[q] = "create" /\ SaveStands(q)
    /\ Len(LoadPost(aux[q].fileAtCall).posts) = 2
    /\ Stored.err = NoErr
    /\ Len(Stored.posts) = 3

====
